---- MODULE Spec2Model ----
(***************************************************************************)
(* Model of the calculator package: Add and Verify (main.go) and the test  *)
(* file that exercises them (test helpers, deferred environment helper,    *)
(* NumberCruncher mock).                                                   *)
(*                                                                         *)
(* float64 is modelled as a binary floating-point format of the same shape *)
(* (sign, Prec significand bits, ExpMax binades above the subnormal one,   *)
(* signed zeros, infinities, NaN, round-to-nearest-even), scaled down so   *)
(* that the value sets are enumerable.  A magnitude is counted in units of *)
(* the smallest subnormal, so every finite value is an integer.            *)
(***************************************************************************)
EXTENDS Integers, Sequences, FiniteSets, TLC

VARIABLES
    x, y, z,          \* float64 arguments handed to Add / Verify
    sumXY,            \* result of Add(x, y), <<>> before the call
    sumYX,            \* result of Add(y, x)
    left,             \* result of Add(Add(x, y), z)
    right,            \* result of Add(x, Add(y, z))
    verified,         \* result of Verify(x, y)
    env,              \* the process environment: key -> <<>> (unset) or <<value>>
    envAtStart,       \* the environment when the running test started
    pc3,              \* TestExampleHelperThree: the statement it is at
    deferred,         \* TestExampleHelperThree: its stack of deferred calls
    actual3,          \* TestExampleHelperThree: actual, <<>> before Add returns
    passed3,          \* TestExampleHelperThree: outcome of assert.Equal
    resets,           \* reset closures returned by testSetENV and not yet called
    lastOp,           \* the last testSetENV / reset call made
    input,            \* the string handed to the float parsing helpers
    helperOne,        \* TestExampleHelper: its locals and position
    helperTwo,        \* TestExampleHelperTwo: its locals and position
    expectedCalls,    \* the mock's configured expectations
    mockCall,         \* arguments of the call made on the mock, <<>> before it
    mockResult        \* what that call did: <<"return", b>> or <<"panic">>

calcVars == <<x, y, z, sumXY, sumYX, left, right, verified>>
threeVars == <<envAtStart, pc3, deferred, actual3, passed3>>
setenvVars == <<resets, lastOp>>
helperVars == <<input, helperOne, helperTwo>>
mockVars == <<expectedCalls, mockCall, mockResult>>
vars == <<calcVars, env, threeVars, setenvVars, helperVars, mockVars>>

----------------------------------------------------------------------------
(* float64 *)

\* significand bits of the scaled format (float64: 53)
Prec == 3
\* binades above the lowest one (float64: 2046)
ExpMax == 1

RECURSIVE Pow2(_)
Pow2(n) == IF n = 0 THEN 1 ELSE 2 * Pow2(n - 1)

Abs(n) == IF n < 0 THEN -n ELSE n

\* largest finite magnitude (math.MaxFloat64)
MaxMag == (Pow2(Prec) - 1) * Pow2(ExpMax)

\* the magnitudes the format can hold
RepMags == {q * Pow2(e) : q \in 0 .. (Pow2(Prec) - 1), e \in 0 .. ExpMax}

Fin(s, m) == [k |-> "fin", s |-> s, m |-> m]
Inf(s) == [k |-> "inf", s |-> s, m |-> 0]
NaN == [k |-> "nan", s |-> 0, m |-> 0]

Float64 == {Fin(s, m) : s \in 0 .. 1, m \in RepMags} \cup {Inf(0), Inf(1), NaN}

IsNaN(f) == f.k = "nan"
IsInf(f) == f.k = "inf"
IsFinite(f) == f.k = "fin"

\* the real number a finite float64 stands for
Value(f) == IF f.s = 1 THEN -f.m ELSE f.m

\* smallest shift e with n / 2^e below 2^Prec
RECURSIVE ShiftOf(_, _)
ShiftOf(n, e) == IF n \div Pow2(e) < Pow2(Prec) THEN e ELSE ShiftOf(n, e + 1)

\* round a natural number to Prec significant bits, ties to even; the exponent
\* is not bounded here, the caller turns a result above MaxMag into an overflow
RoundMag(n) ==
    LET e == ShiftOf(n, 0)
        q == n \div Pow2(e)
        r == n % Pow2(e)
        up == \/ 2 * r > Pow2(e)
              \/ 2 * r = Pow2(e) /\ q % 2 = 1
    IN  (IF up THEN q + 1 ELSE q) * Pow2(e)

\* the float64 nearest to sign * n
Pack(s, n) ==
    LET m == RoundMag(n)
    IN  IF m > MaxMag THEN Inf(s) ELSE Fin(s, m)

\* conversion of an integer constant of the source (0, -5, 10.0) to float64
Const(n) == Pack(IF n < 0 THEN 1 ELSE 0, Abs(n))

\* the float64 + operator
FloatAdd(u, v) ==
    IF IsNaN(u) \/ IsNaN(v) THEN NaN
    ELSE IF IsInf(u) /\ IsInf(v) THEN (IF u.s = v.s THEN u ELSE NaN)
    ELSE IF IsInf(u) THEN u
    ELSE IF IsInf(v) THEN v
    ELSE LET r == Value(u) + Value(v)
         IN  IF r = 0
             THEN Fin(IF u.s = 1 /\ v.s = 1 THEN 1 ELSE 0, 0)
             ELSE Pack(IF r < 0 THEN 1 ELSE 0, Abs(r))

\* the float64 == operator: NaN equals nothing, -0 equals +0
FloatEq(u, v) ==
    /\ ~IsNaN(u)
    /\ ~IsNaN(v)
    /\ \/ u = v
       \/ IsFinite(u) /\ IsFinite(v) /\ u.m = 0 /\ v.m = 0

----------------------------------------------------------------------------
(* main.go *)

\* Add with the wrong operator: return x - y
AddSubtracts(u, v) ==
    LET minus == IF IsNaN(v) THEN NaN ELSE [v EXCEPT !.s = 1 - v.s]
    IN  FloatAdd(u, minus)

\* Add that lets an infinite first operand win over the second
AddFirstInfinity(u, v) == IF IsInf(u) /\ ~IsNaN(v) THEN u ELSE FloatAdd(u, v)

\* func Add(x, y float64) float64 { return x + y }
Add(u, v) == FloatAdd(u, v)

\* Verify that compares its arguments: return got == want
VerifyCompares(got, want) == FloatEq(got, want)

\* func Verify(got, want float64) bool { return true }
Verify(got, want) == TRUE

----------------------------------------------------------------------------
(* the environment *)

EnvKeys == {"foo", "baz"}
EnvValues == {"", "bar", "old", "new"}
Unset == <<>>

\* os.Getenv: the value, or "" when the variable is not present
Getenv(e, key) == IF e[key] = Unset THEN "" ELSE e[key][1]

\* os.Setenv on a key and a value it accepts
Setenv(e, key, value) == [e EXCEPT ![key] = <<value>>]

----------------------------------------------------------------------------
(* the parts of the state a specification does not use *)

EmptyEnv == [k \in EnvKeys |-> Unset]
NoOp == [op |-> "none", key |-> "", value |-> "", before |-> EmptyEnv, atSet |-> EmptyEnv]
NotRun == [pc |-> "idle", expected |-> <<>>, err |-> "nil", failed |-> FALSE,
           acted |-> FALSE, actual |-> <<>>, asserted |-> FALSE]

IdleCalc ==
    /\ x = Const(0) /\ y = Const(0) /\ z = Const(0)
    /\ sumXY = <<>> /\ sumYX = <<>> /\ left = <<>> /\ right = <<>>
    /\ verified = <<>>
IdleThree ==
    /\ envAtStart = env /\ pc3 = "idle" /\ deferred = <<>>
    /\ actual3 = <<>> /\ passed3 = <<>>
IdleSetenv == resets = <<>> /\ lastOp = NoOp
IdleHelpers == input = <<>> /\ helperOne = NotRun /\ helperTwo = NotRun
IdleMock == expectedCalls = <<>> /\ mockCall = <<>> /\ mockResult = <<>>

----------------------------------------------------------------------------
(* calls of Add and Verify on a pair of arguments *)

InitCalc ==
    /\ x \in Float64
    /\ y \in Float64
    /\ z = Const(0)
    /\ sumXY = <<>> /\ sumYX = <<>> /\ left = <<>> /\ right = <<>>
    /\ verified = <<>>
    /\ env \in {EmptyEnv, [EmptyEnv EXCEPT !["foo"] = <<"old">>]}
    /\ IdleThree /\ IdleSetenv /\ IdleHelpers /\ IdleMock

\* actual := Add(x, y)
CallAdd ==
    /\ sumXY' = <<Add(x, y)>>
    /\ UNCHANGED <<x, y, z, sumYX, left, right, verified>>
    /\ UNCHANGED <<env, threeVars, setenvVars, helperVars, mockVars>>

\* Add with the arguments exchanged
CallAddSwapped ==
    /\ sumYX' = <<Add(y, x)>>
    /\ UNCHANGED <<x, y, z, sumXY, left, right, verified>>
    /\ UNCHANGED <<env, threeVars, setenvVars, helperVars, mockVars>>

\* a Verify that leaves a trace in the environment
CallVerifyLeaks ==
    /\ verified' = <<Verify(x, y)>>
    /\ env' = Setenv(env, "foo", "bar")
    /\ UNCHANGED <<x, y, z, sumXY, sumYX, left, right>>
    /\ UNCHANGED <<threeVars, setenvVars, helperVars, mockVars>>

\* Verify(x, y)
CallVerify ==
    /\ verified' = <<Verify(x, y)>>
    /\ UNCHANGED <<x, y, z, sumXY, sumYX, left, right>>
    /\ UNCHANGED <<env, threeVars, setenvVars, helperVars, mockVars>>

NextCalc == CallAdd \/ CallAddSwapped \/ CallVerify

Spec == InitCalc /\ [][NextCalc]_vars

----------------------------------------------------------------------------
(* the two groupings of a three-term sum *)

InitAssoc ==
    /\ x \in Float64
    /\ y \in Float64
    /\ z \in Float64
    /\ sumXY = <<>> /\ sumYX = <<>> /\ left = <<>> /\ right = <<>>
    /\ verified = <<>>
    /\ env = EmptyEnv
    /\ IdleThree /\ IdleSetenv /\ IdleHelpers /\ IdleMock

\* Add(Add(x, y), z)
CallAddLeft ==
    /\ left' = <<Add(Add(x, y), z)>>
    /\ UNCHANGED <<x, y, z, sumXY, sumYX, right, verified>>
    /\ UNCHANGED <<env, threeVars, setenvVars, helperVars, mockVars>>

\* Add(x, Add(y, z))
CallAddRight ==
    /\ right' = <<Add(x, Add(y, z))>>
    /\ UNCHANGED <<x, y, z, sumXY, sumYX, left, verified>>
    /\ UNCHANGED <<env, threeVars, setenvVars, helperVars, mockVars>>

NextAssoc == CallAddLeft \/ CallAddRight

SpecAssoc == InitAssoc /\ [][NextAssoc]_vars

----------------------------------------------------------------------------
(* properties of Add and Verify *)

\* the finite float64 values
Finite64 == {f \in Float64 : IsFinite(f)}

\* the integer n is the value of some finite float64
Representable(n) == Abs(n) \in RepMags

\* C1 as stated: for every pair of finite inputs, Add(x, y) is exactly the
\* arithmetic sum x + y.
C1_AddExactSum ==
    (sumXY # <<>> /\ IsFinite(x) /\ IsFinite(y)) =>
        /\ IsFinite(sumXY[1])
        /\ Value(sumXY[1]) = Value(x) + Value(y)

\* C1 amended: for finite inputs Add(x, y) is the arithmetic sum rounded to
\* float64: exactly x + y whenever that is representable, otherwise a nearest
\* representable value, or the infinity of the sum's sign once the sum is at
\* least half a unit in the last place beyond the largest finite value; in
\* particular Add(0, 0) == 0 and Add(-5, -5) == -10.
C1_AddRoundedSum ==
    (sumXY # <<>> /\ IsFinite(x) /\ IsFinite(y)) =>
        LET n == Value(x) + Value(y)
            r == sumXY[1]
            over == 2 * Abs(n) >= 2 * MaxMag + Pow2(ExpMax)
        IN  /\ ~IsNaN(r)
            /\ IsInf(r) <=> over
            /\ IsInf(r) => (r.s = 1 <=> n < 0)
            /\ IsFinite(r) =>
                 \A v \in Finite64 : Abs(Value(r) - n) <= Abs(Value(v) - n)
            /\ Representable(n) => IsFinite(r) /\ Value(r) = n
            /\ (x = Const(0) /\ y = Const(0)) => FloatEq(r, Const(0))
            /\ (x = Const(-5) /\ y = Const(-5)) => FloatEq(r, Const(-10))

\* C1 witness: Add(-5, -5) has returned -10.
C1_Witness ==
    /\ x = Const(-5) /\ y = Const(-5)
    /\ sumXY = <<Const(-10)>>

\* C2: Verify returns true for every input pair, whatever the arguments.
C2_VerifyAlwaysTrue == verified # <<>> => verified[1] = TRUE

\* C2 witness: Verify(0, 1) has been called, on arguments that differ.
C2_Witness ==
    /\ x = Const(0) /\ y = Const(1)
    /\ ~FloatEq(x, y)
    /\ verified # <<>>

\* C3 as stated: for all inputs Add(x, y) == Add(y, x).
C3_AddCommutes ==
    (sumXY # <<>> /\ sumYX # <<>>) => FloatEq(sumXY[1], sumYX[1])

\* C3 amended: Add(x, y) and Add(y, x) are both NaN, which happens exactly when
\* an argument is NaN or the arguments are infinities of opposite sign, or
\* else they are equal under ==.
C3_AddCommutesOrNaN ==
    (sumXY # <<>> /\ sumYX # <<>>) =>
        LET undefined == \/ IsNaN(x)
                         \/ IsNaN(y)
                         \/ IsInf(x) /\ IsInf(y) /\ x.s # y.s
        IN  /\ IsNaN(sumXY[1]) <=> undefined
            /\ IsNaN(sumYX[1]) <=> undefined
            /\ ~undefined => FloatEq(sumXY[1], sumYX[1])

\* C3 witness: both orders have been computed on two different finite numbers.
C3_Witness ==
    /\ sumXY # <<>> /\ sumYX # <<>>
    /\ IsFinite(x) /\ IsFinite(y) /\ ~FloatEq(x, y)
    /\ FloatEq(sumXY[1], sumYX[1])

\* C4 as stated, on finite inputs: Add(Add(x, y), z) and Add(x, Add(y, z))
\* agree within floating-point tolerance, that is, they are the same value or
\* finite with a relative difference of at most 2^-(Prec-1), the machine
\* epsilon of the format.
C4_AddAssociates ==
    (left # <<>> /\ right # <<>> /\ IsFinite(x) /\ IsFinite(y) /\ IsFinite(z)) =>
        LET u == left[1]
            v == right[1]
            larger == IF u.m < v.m THEN v.m ELSE u.m
        IN  \/ u = v
            \/ /\ IsFinite(u) /\ IsFinite(v)
               /\ Abs(Value(u) - Value(v)) * Pow2(Prec - 1) <= larger

\* C4 amended: for finite x, y, z whose inner sums x + y and y + z are both
\* exactly representable (neither inner addition rounds or overflows),
\* Add(Add(x, y), z) == Add(x, Add(y, z)).
C4_AddAssociatesWhenExact ==
    ( /\ left # <<>> /\ right # <<>>
      /\ IsFinite(x) /\ IsFinite(y) /\ IsFinite(z)
      /\ Representable(Value(x) + Value(y))
      /\ Representable(Value(y) + Value(z)) ) =>
        FloatEq(left[1], right[1])

\* C4 witness: both groupings of 1 + 2 + 3 have been computed.
C4_Witness ==
    /\ x = Const(1) /\ y = Const(2) /\ z = Const(3)
    /\ left # <<>> /\ right # <<>>

\* C5: a call of Add or Verify returns a value, changes nothing but the
\* variable that receives its result (the environment and the arguments stay
\* as they were), and a repeated call returns what the first one did.
C5_CallsArePure ==
    [][ /\ env' = env
        /\ <<x, y, z>>' = <<x, y, z>>
        /\ <<threeVars, setenvVars, helperVars, mockVars>>'
             = <<threeVars, setenvVars, helperVars, mockVars>>
        /\ sumXY' \in {<<f>> : f \in Float64} \cup {<<>>}
        /\ sumYX' \in {<<f>> : f \in Float64} \cup {<<>>}
        /\ verified' \in {<<b>> : b \in BOOLEAN} \cup {<<>>}
        /\ sumXY # <<>> => sumXY' = sumXY
        /\ sumYX # <<>> => sumYX' = sumYX
        /\ verified # <<>> => verified' = verified ]_vars

\* C5 witness: Add and Verify have both been called with a variable set in
\* the environment.
C5_Witness ==
    /\ sumXY # <<>> /\ sumYX # <<>> /\ verified # <<>>
    /\ env["foo"] = <<"old">>

----------------------------------------------------------------------------
(* testSetENV and TestExampleHelperThree *)

Envs == [EnvKeys -> {Unset} \cup {<<v>> : v \in EnvValues}]

\* testSetENV that reads the original value after it has set the new one
TestSetENVReadsLate(e, key, value) ==
    LET set == Setenv(e, key, value)
    IN  [env |-> set, reset |-> [key |-> key, ogENV |-> Getenv(set, key)]]

\* func testSetENV(key, value string) func(): the environment it leaves and
\* the closure it returns, which holds key and ogENV
TestSetENV(e, key, value) ==
    LET ogENV == Getenv(e, key)
    IN  [env |-> Setenv(e, key, value), reset |-> [key |-> key, ogENV |-> ogENV]]

\* the returned closure: func() { os.Setenv(key, ogENV) }
Reset(e, closure) == Setenv(e, closure.key, closure.ogENV)

InitThree ==
    /\ IdleCalc
    /\ env \in Envs
    /\ envAtStart = env
    /\ pc3 = "defer"
    /\ deferred = <<>>
    /\ actual3 = <<>>
    /\ passed3 = <<>>
    /\ IdleSetenv /\ IdleHelpers /\ IdleMock

\* defer testSetENV("foo", "bar"): the call itself is deferred, with its
\* arguments evaluated now; nothing is called yet
ThreeDefer ==
    /\ pc3 = "defer"
    /\ deferred' = <<[fn |-> "testSetENV", key |-> "foo", value |-> "bar"]>> \o deferred
    /\ pc3' = "act"
    /\ UNCHANGED <<calcVars, env, envAtStart, actual3, passed3>>
    /\ UNCHANGED <<setenvVars, helperVars, mockVars>>

\* actual := Add(0, 0)
ThreeAct ==
    /\ pc3 = "act"
    /\ actual3' = <<Add(Const(0), Const(0))>>
    /\ pc3' = "assert"
    /\ UNCHANGED <<calcVars, env, envAtStart, deferred, passed3>>
    /\ UNCHANGED <<setenvVars, helperVars, mockVars>>

\* assert.Equal(t, 0.0, actual)
ThreeAssert ==
    /\ pc3 = "assert"
    /\ passed3' = <<FloatEq(Const(0), actual3[1])>>
    /\ pc3' = "return"
    /\ UNCHANGED <<calcVars, env, envAtStart, deferred, actual3>>
    /\ UNCHANGED <<setenvVars, helperVars, mockVars>>

\* the function returns: the deferred call testSetENV("foo", "bar") runs now,
\* and the closure it returns is dropped
ThreeRunDeferred ==
    /\ pc3 = "return"
    /\ deferred # <<>>
    /\ env' = TestSetENV(env, Head(deferred).key, Head(deferred).value).env
    /\ deferred' = Tail(deferred)
    /\ UNCHANGED <<calcVars, envAtStart, pc3, actual3, passed3>>
    /\ UNCHANGED <<setenvVars, helperVars, mockVars>>

\* TestExampleHelperThree has returned
ThreeDone ==
    /\ pc3 = "return"
    /\ deferred = <<>>
    /\ pc3' = "done"
    /\ UNCHANGED <<calcVars, env, envAtStart, deferred, actual3, passed3>>
    /\ UNCHANGED <<setenvVars, helperVars, mockVars>>

NextThree == ThreeDefer \/ ThreeAct \/ ThreeAssert \/ ThreeRunDeferred \/ ThreeDone

SpecThree == InitThree /\ [][NextThree]_vars

\* C6: after TestExampleHelperThree has returned, "foo" reads as it did when
\* the test started.
C6_FooRestoredAfterTest ==
    pc3 = "done" => Getenv(env, "foo") = Getenv(envAtStart, "foo")

\* C7: when Add(0, 0) is called and when its result is asserted, "foo" reads
\* "bar".
C7_FooSetWhileTestActs ==
    pc3 \in {"act", "assert"} => Getenv(env, "foo") = "bar"

----------------------------------------------------------------------------
(* testSetENV and the closure it returns, called as nested pairs *)

\* nesting depth of outstanding testSetENV calls
MaxNest == 2

InitSetenv ==
    /\ IdleCalc
    /\ env \in Envs
    /\ IdleThree
    /\ resets = <<>>
    /\ lastOp = NoOp
    /\ IdleHelpers /\ IdleMock

\* reset := testSetENV(key, value)
CallTestSetENV ==
    /\ Len(resets) < MaxNest
    /\ \E key \in EnvKeys, value \in EnvValues :
         LET r == TestSetENV(env, key, value)
         IN  /\ env' = r.env
             /\ resets' = <<[reset |-> r.reset, before |-> env]>> \o resets
             /\ lastOp' = [op |-> "set", key |-> key, value |-> value,
                           before |-> env, atSet |-> env]
    /\ UNCHANGED <<calcVars, threeVars, helperVars, mockVars>>

\* reset(): the closure of the innermost outstanding testSetENV call
CallReset ==
    /\ resets # <<>>
    /\ LET top == Head(resets)
       IN  /\ env' = Reset(env, top.reset)
           /\ lastOp' = [op |-> "reset", key |-> top.reset.key,
                         value |-> top.reset.ogENV,
                         before |-> env, atSet |-> top.before]
    /\ resets' = Tail(resets)
    /\ UNCHANGED <<calcVars, threeVars, helperVars, mockVars>>

NextSetenv == CallTestSetENV \/ CallReset

SpecSetenv == InitSetenv /\ [][NextSetenv]_vars

----------------------------------------------------------------------------
(* the float parsing helpers, TestExampleHelper and TestExampleHelperTwo *)

\* length of the strings handed to the helpers
MaxLen == 2

\* the characters of the input strings: three digits, the sign, and a letter
Chars == {"0", "1", "5", "-", "x"}
Strings == UNION {[1 .. n -> Chars] : n \in 0 .. MaxLen}

IsDigit(c) == c \in {"0", "1", "5"}
DigitValue(c) == CASE c = "0" -> 0 [] c = "1" -> 1 [] c = "5" -> 5

RECURSIVE Decimal(_)
Decimal(d) ==
    IF d = <<>> THEN 0
    ELSE 10 * Decimal(SubSeq(d, 1, Len(d) - 1)) + DigitValue(d[Len(d)])

\* strconv.ParseFloat(s, 64) on strings over Chars: an optional sign and at
\* least one decimal digit, converted to the nearest float64; (0, syntax error)
\* on anything else, (+-Inf, range error) when the value overflows
ParseFloat(s) ==
    LET neg == s # <<>> /\ s[1] = "-"
        digits == IF neg THEN Tail(s) ELSE s
        wellFormed == digits # <<>> /\ \A i \in 1 .. Len(digits) : IsDigit(digits[i])
        f == Pack(IF neg THEN 1 ELSE 0, Decimal(digits))
    IN  IF ~wellFormed THEN [f |-> Const(0), err |-> "syntax"]
        ELSE IF IsInf(f) THEN [f |-> f, err |-> "range"]
        ELSE [f |-> f, err |-> "nil"]

\* func testFloatParserReturnsError(input string) (float64, error)
TestFloatParserReturnsError(in) ==
    LET r == ParseFloat(in)
    IN  IF r.err # "nil" THEN [out |-> r.f, err |-> r.err]
        ELSE [out |-> r.f, err |-> "nil"]

\* testFloatParserFails that reports the error and carries on (t.Error)
TestFloatParserFailsLate(in) ==
    LET r == ParseFloat(in)
    IN  [fatal |-> FALSE, out |-> r.f]

\* func testFloatParserFails(t *testing.T, input string) float64: fatal when
\* t.Fatal(err) ended the test instead of returning
TestFloatParserFails(in) ==
    LET r == ParseFloat(in)
    IN  IF r.err # "nil" THEN [fatal |-> TRUE, out |-> r.f]
        ELSE [fatal |-> FALSE, out |-> r.f]

InitHelpers ==
    /\ IdleCalc
    /\ env = EmptyEnv
    /\ IdleThree /\ IdleSetenv
    /\ input \in Strings
    /\ helperOne = [NotRun EXCEPT !.pc = "call"]
    /\ helperTwo = NotRun
    /\ IdleMock

\* expected, err := testFloatParserReturnsError(input)
HelperOneCall ==
    /\ helperOne.pc = "call"
    /\ LET r == TestFloatParserReturnsError(input)
       IN  helperOne' = [helperOne EXCEPT !.expected = <<r.out>>, !.err = r.err,
                                          !.pc = "check"]
    /\ UNCHANGED <<calcVars, env, threeVars, setenvVars, input, helperTwo, mockVars>>

\* if err != nil { t.FailNow() }
HelperOneCheck ==
    /\ helperOne.pc = "check"
    /\ helperOne' = IF helperOne.err # "nil"
                    THEN [helperOne EXCEPT !.failed = TRUE, !.pc = "exit"]
                    ELSE [helperOne EXCEPT !.pc = "act"]
    /\ UNCHANGED <<calcVars, env, threeVars, setenvVars, input, helperTwo, mockVars>>

\* actual := Add(5, 5)
HelperOneAct ==
    /\ helperOne.pc = "act"
    /\ helperOne' = [helperOne EXCEPT !.actual = <<Add(Const(5), Const(5))>>,
                                      !.acted = TRUE, !.pc = "assert"]
    /\ UNCHANGED <<calcVars, env, threeVars, setenvVars, input, helperTwo, mockVars>>

\* assert.Equal(t, expected, actual)
HelperOneAssert ==
    /\ helperOne.pc = "assert"
    /\ helperOne' = [helperOne EXCEPT
                       !.failed = ~FloatEq(helperOne.expected[1], helperOne.actual[1]),
                       !.asserted = TRUE, !.pc = "exit"]
    /\ UNCHANGED <<calcVars, env, threeVars, setenvVars, input, helperTwo, mockVars>>

\* the next test function starts
HelperTwoStart ==
    /\ helperOne.pc = "exit"
    /\ helperTwo.pc = "idle"
    /\ helperTwo' = [helperTwo EXCEPT !.pc = "call"]
    /\ UNCHANGED <<calcVars, env, threeVars, setenvVars, input, helperOne, mockVars>>

\* expected := testFloatParserFails(t, input)
HelperTwoCall ==
    /\ helperTwo.pc = "call"
    /\ LET r == TestFloatParserFails(input)
       IN  helperTwo' = IF r.fatal
                        THEN [helperTwo EXCEPT !.failed = TRUE, !.pc = "exit"]
                        ELSE [helperTwo EXCEPT !.expected = <<r.out>>, !.pc = "act"]
    /\ UNCHANGED <<calcVars, env, threeVars, setenvVars, input, helperOne, mockVars>>

\* out := Add(5, 5)
HelperTwoAct ==
    /\ helperTwo.pc = "act"
    /\ helperTwo' = [helperTwo EXCEPT !.actual = <<Add(Const(5), Const(5))>>,
                                      !.acted = TRUE, !.pc = "assert"]
    /\ UNCHANGED <<calcVars, env, threeVars, setenvVars, input, helperOne, mockVars>>

\* assert.Equal(t, expected, out)
HelperTwoAssert ==
    /\ helperTwo.pc = "assert"
    /\ helperTwo' = [helperTwo EXCEPT
                       !.failed = ~FloatEq(helperTwo.expected[1], helperTwo.actual[1]),
                       !.asserted = TRUE, !.pc = "exit"]
    /\ UNCHANGED <<calcVars, env, threeVars, setenvVars, input, helperOne, mockVars>>

NextHelpers ==
    \/ HelperOneCall \/ HelperOneCheck \/ HelperOneAct \/ HelperOneAssert
    \/ HelperTwoStart \/ HelperTwoCall \/ HelperTwoAct \/ HelperTwoAssert

SpecHelpers == InitHelpers /\ [][NextHelpers]_vars

\* C9: on an input that parses, testFloatParserReturnsError returns
\* (value, nil) and testFloatParserFails returns the same value without failing
\* the test; on an input that does not parse, the first returns a non-nil
\* error and the second ends the test as failed at the helper call, so that
\* neither Add nor the assertion after it runs.
C9_HelpersAgree ==
    LET parsed == ParseFloat(input)
        oneReturned == helperOne.pc \notin {"idle", "call"}
        twoReturned == helperTwo.pc \notin {"idle", "call"}
    IN  /\ (oneReturned /\ parsed.err = "nil") =>
              /\ helperOne.err = "nil"
              /\ helperOne.expected = <<parsed.f>>
        /\ (oneReturned /\ parsed.err # "nil") => helperOne.err # "nil"
        /\ (twoReturned /\ parsed.err = "nil") =>
              /\ helperTwo.expected = helperOne.expected
              /\ helperTwo.pc = "act" => ~helperTwo.failed
        /\ (twoReturned /\ parsed.err # "nil") =>
              /\ helperTwo.pc = "exit"
              /\ helperTwo.failed
              /\ ~helperTwo.acted
              /\ ~helperTwo.asserted

\* C9 witness: on an input that is no number the first helper has returned a
\* syntax error and the second has ended its test.
C9_Witness ==
    /\ input = <<"1", "x">>
    /\ helperOne.err = "syntax"
    /\ helperOne.failed
    /\ helperTwo.pc = "exit"
    /\ helperTwo.failed

----------------------------------------------------------------------------
(* the NumberCruncher mock and TestVerify *)

\* number of expectations configured on the mock
MaxExpect == 1

\* a value boxed in an interface{}: its dynamic type and the value; the
\* constants 0 and 1 of On("Verify", 0, 1) are ints, the float64 parameters of
\* the interface method arrive as float64, mock.Anything matches any argument
BoxInt(n) == [t |-> "int", i |-> n, f |-> Const(0)]
BoxFloat(f) == [t |-> "float64", i |-> 0, f |-> f]
Anything == [t |-> "anything", i |-> 0, f |-> Const(0)]

\* assert.ObjectsAreEqual: equal dynamic types and equal values
ObjectsAreEqual(a, b) ==
    /\ a.t = b.t
    /\ a.t = "int" => a.i = b.i
    /\ a.t = "float64" => FloatEq(a.f, b.f)

\* one argument of Arguments.Diff
ArgMatches(expected, got) ==
    \/ expected = Anything
    \/ got = Anything
    \/ ObjectsAreEqual(got, expected)

\* the expectation the call is served by: the first one of that method whose
\* arguments match, 0 when there is none
RECURSIVE FindExpectedCall(_, _, _, _)
FindExpectedCall(calls, i, method, args) ==
    IF i > Len(calls) THEN 0
    ELSE IF /\ calls[i].method = method
            /\ \A j \in 1 .. 2 : ArgMatches(calls[i].args[j], args[j])
         THEN i
         ELSE FindExpectedCall(calls, i + 1, method, args)

\* mocks.NumberCruncher.Verify(got, want float64) bool: hands its arguments to
\* Called, which panics on a call no expectation matches, and returns the
\* configured value; the package's Verify is not called
MockVerify(calls, got, want) ==
    LET i == FindExpectedCall(calls, 1, "Verify", <<BoxFloat(got), BoxFloat(want)>>)
    IN  IF i = 0 THEN <<"panic">> ELSE <<"return", calls[i].ret>>

OnArgs == {BoxInt(0), BoxInt(1), BoxFloat(Const(0)), BoxFloat(Const(1)), Anything}

InitMock ==
    /\ IdleCalc
    /\ env = EmptyEnv
    /\ IdleThree /\ IdleSetenv /\ IdleHelpers
    /\ expectedCalls = <<>>
    /\ mockCall = <<>>
    /\ mockResult = <<>>

\* mockNumberCruncher.On(method, a1, a2).Return(ret)
MockOn ==
    /\ Len(expectedCalls) < MaxExpect
    /\ mockCall = <<>>
    /\ \E method \in {"Verify", "Add"}, a1 \in OnArgs, a2 \in OnArgs, ret \in BOOLEAN :
         expectedCalls' = Append(expectedCalls,
                                 [method |-> method, args |-> <<a1, a2>>, ret |-> ret])
    /\ UNCHANGED <<calcVars, env, threeVars, setenvVars, helperVars, mockCall, mockResult>>

\* actual := mockNumberCruncher.Verify(got, want)
MockVerifyCall ==
    /\ mockCall = <<>>
    /\ \E got \in {Const(0), Const(1)}, want \in {Const(0), Const(1)} :
         /\ mockCall' = <<got, want>>
         /\ mockResult' = MockVerify(expectedCalls, got, want)
    /\ UNCHANGED <<calcVars, env, threeVars, setenvVars, helperVars, expectedCalls>>

NextMock == MockOn \/ MockVerifyCall

SpecMock == InitMock /\ [][NextMock]_vars

\* C8: on a mock configured with On("Verify", 0, 1).Return(false), the call
\* Verify(0, 1) returns false.
C8_MockReturnsConfigured ==
    ( /\ expectedCalls = <<[method |-> "Verify", args |-> <<BoxInt(0), BoxInt(1)>>,
                            ret |-> FALSE]>>
      /\ mockCall = <<Const(0), Const(1)>> ) =>
        mockResult = <<"return", FALSE>>

====
